---------------------------- MODULE Spec2Model ----------------------------
(***************************************************************************)
(* The w3g block decompressor (file/w3g/decompress.go): a Decompressor is  *)
(* an io.Reader over a sequence of blocks, each a header (two layouts)     *)
(* followed by a zlib stream; ForEach decodes records from it through a    *)
(* bufio.Reader.                                                           *)
(*                                                                         *)
(* Bytes are modelled as bytes.  The byte source is an in-memory reader    *)
(* over `src`.  The library pieces the code calls are modelled by what     *)
(* they do: crc32.ChecksumIEEE (real CRC-32), io.ReadFull, io.Copy,        *)
(* io.LimitedReader, io.TeeReader, bufio.Reader, and compress/zlib on the  *)
(* stored-block subset of deflate (block types 00 and 11; the Huffman      *)
(* block types 01 and 10 are outside the inputs the model builds).         *)
(*                                                                         *)
(* TLC's integers are 32-bit signed.  A 32-bit checksum is therefore held  *)
(* as the pair <<high 16 bits, low 16 bits>>, and a uint32 counter as the  *)
(* representative of its residue class mod 2^32 in -2^31 .. 2^31-1; so is  *)
(* d.lim.N, an int64 that only holds values of 0 .. 2^32-1.  The          *)
(* arithmetic on them wraps (Add32, Sub32), a comparison is unsigned       *)
(* (Above32) and the test v > 0 is v # 0.  While the lengths of the input  *)
(* are below 2^31 a counter has wrapped below 0 exactly when its           *)
(* representative is negative.                                             *)
(***************************************************************************)
EXTENDS Integers, Sequences, FiniteSets, TLC

(***************************************************************************)
(* Bit operations on bytes and 16-bit halves.                              *)
(***************************************************************************)
RECURSIVE XorBits(_, _, _)
XorBits(a, b, k) ==
    IF k = 0 THEN 0
    ELSE (((a % 2) + (b % 2)) % 2) + 2 * XorBits(a \div 2, b \div 2, k - 1)

XorNib == [a \in 0..15 |-> [b \in 0..15 |-> XorBits(a, b, 4)]]

Xor8(a, b) == 16 * XorNib[a \div 16][b \div 16] + XorNib[(a % 16)][(b % 16)]

Xor16(a, b) == 256 * Xor8(a \div 256, b \div 256) + Xor8((a % 256), (b % 256))

\* ^x on a 32-bit word <<hi, lo>>
Not32(w) == <<65535 - w[1], 65535 - w[2]>>

Xor32(v, w) == <<Xor16(v[1], w[1]), Xor16(v[2], w[2])>>

\* w >> 1 and w >> 8 on a 32-bit word
Shr1(w) == <<w[1] \div 2, ((w[1] % 2) * 32768) + (w[2] \div 2)>>

Shr8(w) == <<w[1] \div 256, ((w[1] % 256) * 256) + (w[2] \div 256)>>

(***************************************************************************)
(* hash/crc32, IEEE polynomial 0xedb88320 (reflected), as simpleMakeTable  *)
(* and simpleUpdate compute it.                                            *)
(***************************************************************************)
IEEEPoly == <<60856, 33568>>   \* 0xedb8, 0x8320

RECURSIVE CrcEntry(_, _)
CrcEntry(w, k) ==
    IF k = 0 THEN w
    ELSE CrcEntry(IF (w[2] % 2) = 1 THEN Xor32(Shr1(w), IEEEPoly) ELSE Shr1(w), k - 1)

IEEETable == [i \in 0..255 |-> CrcEntry(<<0, i>>, 8)]

\* One byte of simpleUpdate on the inverted register.
CrcStep(w, byte) == Xor32(IEEETable[Xor8((w[2] % 256), byte)], Shr8(w))

\* digest.Write of one byte: crc = ^simpleUpdate(^crc, tab, p)
CrcWrite(crc, byte) == Not32(CrcStep(Not32(crc), byte))

\* digest.Write(p), from byte i of p on.  (The test on c makes TLC compute
\* each step's value before the next step, which keeps its evaluation
\* shallow.)
RECURSIVE CrcWriteFrom(_, _, _)
CrcWriteNext(c, p, i) == IF c[1] >= 0 THEN CrcWriteFrom(c, p, i) ELSE c

CrcWriteFrom(crc, p, i) ==
    IF i > Len(p) THEN crc ELSE CrcWriteNext(CrcWrite(crc, p[i]), p, i + 1)

CrcWriteAll(crc, p) == CrcWriteFrom(crc, p, 1)

CrcZero == <<0, 0>>

ChecksumIEEE(p) == CrcWriteAll(CrcZero, p)

\* uint16(crc ^ crc>>16)
Fold16(crc) == Xor16(crc[1], crc[2])

(***************************************************************************)
(* hash/adler32: the digest is the pair <<a, b>> of s1 and s2.             *)
(***************************************************************************)
AdlerMod == 65521

AdlerInit == <<1, 0>>

\* digest.Write(p), from byte i of p on: s1 += p[i]; s2 += s1, mod 65521
RECURSIVE AdlerWriteFrom(_, _, _)
AdlerWriteNext(a, s2, p, i) ==
    IF a >= 0 THEN AdlerWriteFrom(<<a, (s2 + a) % AdlerMod>>, p, i) ELSE <<a, s2>>

AdlerWriteFrom(s, p, i) ==
    IF i > Len(p) THEN s
    ELSE AdlerWriteNext((s[1] + p[i]) % AdlerMod, s[2], p, i + 1)

AdlerWrite(s, p) == AdlerWriteFrom(s, p, 1)

\* The checksum b<<16 | a as the four big-endian bytes of the zlib trailer.
AdlerBytes(s) == <<s[2] \div 256, (s[2] % 256), s[1] \div 256, (s[1] % 256)>>

(***************************************************************************)
(* Small helpers.                                                          *)
(***************************************************************************)
Min(a, b) == IF a < b THEN a ELSE b

Take(p, n) == SubSeq(p, 1, n)

Drop(p, n) == SubSeq(p, n + 1, Len(p))

\* n bytes of value 0
Zeros(n) == [i \in 1..n |-> 0]

\* protocol.Buffer.ReadUInt16 / ReadUInt32: little-endian.  A 32-bit value
\* with the top bit set is held as its negative representative.
UInt16LE(p) == p[1] + 256 * p[2]

UInt32LE(p) ==
    p[1] + 256 * p[2] + 65536 * p[3]
         + 16777216 * (IF p[4] < 128 THEN p[4] ELSE p[4] - 256)

\* uint32 arithmetic on the representatives: the representative of
\* t + 2^31, the sum and the difference modulo 2^32, and the unsigned a > b
Flip32(t) == IF t >= 0 THEN (t - 2147483647) - 1 ELSE (t + 2147483647) + 1

Add32(a, b) ==
    IF (a < 0) # (b < 0) THEN a + b
    ELSE IF a < 0 THEN Flip32(((a + 2147483647) + 1) + b)
    ELSE Flip32(((a - 2147483647) - 1) + b)

Sub32(a, b) ==
    IF (a < 0) = (b < 0) THEN a - b
    ELSE IF a < 0 THEN Flip32(((a + 2147483647) + 1) - b)
    ELSE Flip32(a - ((b + 2147483647) + 1))

Above32(a, b) == IF (a < 0) = (b < 0) THEN a > b ELSE a < 0

\* io.ReadFull's error for k bytes wanted and n bytes got before EOF.
ReadFullErr(n, k) ==
    IF n >= k THEN "nil" ELSE IF n = 0 THEN "EOF" ELSE "ErrUnexpectedEOF"

\* flate.noEOF and zlib's conversion: io.EOF becomes io.ErrUnexpectedEOF.
noEOF(e) == IF e = "EOF" THEN "ErrUnexpectedEOF" ELSE e

(***************************************************************************)
(* The Decompressor is the record d.  d.r is the byte source, an in-memory *)
(* reader [s |-> bytes, i |-> bytes consumed]; d.lim is the LimitedReader  *)
(* (lim.R is always d.r); d.crc the payload CRC-32; d.z the zlib reader,   *)
(* with z.nil for d.z == nil.  d.buf is scratch that nextBlock fills and   *)
(* reads within one call, so it is local to nextBlock here.  Two fields    *)
(* are history and not part of the Decompressor: d.iters counts the        *)
(* iterations of the loop of the last Read, d.heads lists the header       *)
(* reads of nextBlock.                                                     *)
(*                                                                         *)
(* An operation that binds the result of a call is written as two          *)
(* definitions: the call, and what the code does with its result.          *)
(***************************************************************************)

\* io.ReadFull(d.r, p[:k]), of which n bytes are there
SrcTake(d, k, n) ==
    [d   |-> [d EXCEPT !.r.i = @ + n],
     p   |-> SubSeq(d.r.s, d.r.i + 1, d.r.i + n),
     err |-> ReadFullErr(n, k)]

SrcReadFull(d, k) == SrcTake(d, k, Min(k, Len(d.r.s) - d.r.i))

\* The bytes io.ReadFull(d.tee, p[:k]) gets: the LimitedReader gives at
\* most lim.N bytes of d.r.
TeeAvail(d, k) ==
    Min(IF d.lim.N = 0 THEN 0 ELSE IF Above32(d.lim.N, k) THEN k ELSE d.lim.N,
        Len(d.r.s) - d.r.i)

\* The TeeReader writes the bytes p that were read to d.crc.
TeeTake(d, k, p) ==
    [d   |-> [d EXCEPT !.r.i = @ + Len(p), !.lim.N = Sub32(@, Len(p)),
                       !.crc = CrcWriteAll(@, p)],
     p   |-> p,
     err |-> ReadFullErr(Len(p), k)]

\* io.ReadFull(d.tee, p[:k]), and toByteReader.ReadByte for k = 1
TeeReadFull(d, k) ==
    TeeTake(d, k, SubSeq(d.r.s, d.r.i + 1, d.r.i + TeeAvail(d, k)))

(***************************************************************************)
(* compress/flate on stored blocks.  z.ferr is the decompressor's err,     *)
(* z.toRead its pending output, z.hist the bytes written to the window     *)
(* and not yet flushed, z.final the BFINAL bit of the current block.       *)
(* The window (32768 bytes) never fills within the model's inputs, so      *)
(* copyData never pauses and every step is nextBlock.                      *)
(***************************************************************************)
\* f.dict.readFlush() into f.toRead
flateFlush(z) == [z EXCEPT !.toRead = z.hist, !.hist = <<>>]

finishBlock(z) ==
    IF z.final
    THEN [(IF z.hist # <<>> THEN flateFlush(z) ELSE z) EXCEPT !.ferr = "EOF"]
    ELSE z

\* copyData after io.ReadFull(f.r, buf) returned c
copied(c) ==
    IF c.err # "nil"
    THEN [c.d EXCEPT !.z.hist = @ \o c.p, !.z.ferr = noEOF(c.err)]
    ELSE [c.d EXCEPT !.z = finishBlock([@ EXCEPT !.hist = @ \o c.p])]

copyData(d, n) == copied(TeeReadFull(d, n))

\* dataBlock after io.ReadFull(f.r, f.buf[0:4]) returned h: LEN and NLEN
dataBlockLen(h) ==
    IF h.err # "nil"
    THEN [h.d EXCEPT !.z.ferr = noEOF(h.err)]
    ELSE IF UInt16LE(SubSeq(h.p, 3, 4)) # 65535 - UInt16LE(SubSeq(h.p, 1, 2))
    THEN [h.d EXCEPT !.z.ferr = "flate.CorruptInputError"]
    ELSE IF UInt16LE(SubSeq(h.p, 1, 2)) = 0
    THEN [h.d EXCEPT !.z = finishBlock(flateFlush(@))]
    ELSE copyData(h.d, UInt16LE(SubSeq(h.p, 1, 2)))

dataBlock(d) == dataBlockLen(TeeReadFull(d, 4))

\* decompressor.nextBlock after ReadByte returned h: the byte holds BFINAL
\* and BTYPE.
flateBlockType(h) ==
    IF h.err # "nil"
    THEN [h.d EXCEPT !.z.ferr = noEOF(h.err)]
    ELSE IF ((h.p[1] \div 2) % 4) = 0
    THEN dataBlock([h.d EXCEPT !.z.final = ((h.p[1] % 2) = 1)])
    ELSE [h.d EXCEPT !.z.final = ((h.p[1] % 2) = 1),
                     !.z.ferr = IF ((h.p[1] \div 2) % 4) = 3
                                THEN "flate.CorruptInputError"
                                ELSE "flate.Huffman"]

flateNextBlock(d) == flateBlockType(TeeReadFull(d, 1))

\* decompressor.Read(p[:k]), k >= 1
RECURSIVE flateRead(_, _)
\* after f.step(f) gave s
flateStepped(s, k) ==
    flateRead(IF s.z.ferr # "nil" /\ s.z.toRead = <<>>
              THEN [s EXCEPT !.z = flateFlush(@)] ELSE s, k)

\* with f.toRead non-empty: copy n bytes of it
flateCopy(d, n) ==
    [d   |-> [d EXCEPT !.z.toRead = Drop(@, n)],
     p   |-> Take(d.z.toRead, n),
     err |-> IF n = Len(d.z.toRead) THEN d.z.ferr ELSE "nil"]

flateRead(d, k) ==
    IF d.z.toRead # <<>> THEN flateCopy(d, Min(k, Len(d.z.toRead)))
    ELSE IF d.z.ferr # "nil" THEN [d |-> d, p |-> <<>>, err |-> d.z.ferr]
    ELSE flateStepped(flateNextBlock(d), k)

(***************************************************************************)
(* compress/zlib: z.err is the reader's sticky err, z.digest its Adler-32. *)
(***************************************************************************)
zlibNil ==
    [nil |-> TRUE, err |-> "nil", ferr |-> "nil", toRead |-> <<>>,
     hist |-> <<>>, final |-> FALSE, digest |-> AdlerInit]

\* reader.Read at the end of the deflate stream, after
\* io.ReadFull(z.r, z.scratch[0:4]) returned t: the Adler-32 trailer
zlibTrailerErr(t) ==
    IF t.err # "nil" THEN noEOF(t.err)
    ELSE IF t.p # AdlerBytes(t.d.z.digest) THEN "zlib.ErrChecksum"
    ELSE "EOF"

zlibTrailer(t, p) ==
    [d |-> [t.d EXCEPT !.z.err = zlibTrailerErr(t)], p |-> p, err |-> zlibTrailerErr(t)]

\* reader.Read after z.decompressor.Read returned f
zlibDigest(f) == [f.d EXCEPT !.z.digest = AdlerWrite(@, f.p), !.z.err = f.err]

zlibGot(f) ==
    IF f.err # "EOF" THEN [d |-> zlibDigest(f), p |-> f.p, err |-> f.err]
    ELSE zlibTrailer(TeeReadFull(zlibDigest(f), 4), f.p)

\* reader.Read(p[:k]), k >= 1
zlibRead(d, k) ==
    IF d.z.err # "nil" THEN [d |-> d, p |-> <<>>, err |-> d.z.err]
    ELSE zlibGot(flateRead(d, k))

\* reader.Reset(d.tee, nil), which zlib.NewReader also runs on a new reader:
\* the 2-byte header, and the 4-byte dictionary id when FDICT is set (no
\* dictionary is given, so its Adler-32 is 1).  When NewReader fails d.z
\* stays nil (z0 is the reader before the call); when Reset fails the
\* reader keeps the error, and its decompressor is not reset.
zlibFresh == [zlibNil EXCEPT !.nil = FALSE]

zlibFail(z0, d, e) ==
    [d   |-> IF z0.nil THEN d
             ELSE [d EXCEPT !.z = [z0 EXCEPT !.err = e, !.digest = AdlerInit]],
     err |-> e]

zlibDict(z0, k) ==
    IF k.err # "nil" THEN zlibFail(z0, k.d, noEOF(k.err))
    ELSE IF k.p # <<0, 0, 0, 1>> THEN zlibFail(z0, k.d, "zlib.ErrDictionary")
    ELSE [d |-> [k.d EXCEPT !.z = zlibFresh], err |-> "nil"]

zlibHeader(z0, h) ==
    IF h.err # "nil" THEN zlibFail(z0, h.d, noEOF(h.err))
    ELSE IF (h.p[1] % 16) # 8 \/ h.p[1] \div 16 > 7
            \/ ((256 * h.p[1] + h.p[2]) % 31) # 0
    THEN zlibFail(z0, h.d, "zlib.ErrHeader")
    ELSE IF ((h.p[2] \div 32) % 2) = 1 THEN zlibDict(z0, TeeReadFull(h.d, 4))
    ELSE [d |-> [h.d EXCEPT !.z = zlibFresh], err |-> "nil"]

zlibReset(d) == zlibHeader(d.z, TeeReadFull(d, 2))

\* io.ReadFull(d.z, p[:k]), k >= 1: reader.Read until k bytes or an error;
\* got holds the bytes read so far.
RECURSIVE zReadFull(_, _, _)
zReadErr(n, k, err) ==
    IF n >= k THEN "nil"
    ELSE IF n > 0 /\ err = "EOF" THEN "ErrUnexpectedEOF"
    ELSE err

zReadMore(x, k, got) ==
    IF Len(got) + Len(x.p) < k /\ x.err = "nil" THEN zReadFull(x.d, k, got \o x.p)
    ELSE [d |-> x.d, p |-> got \o x.p, err |-> zReadErr(Len(got) + Len(x.p), k, x.err)]

zReadFull(d, k, got) == zReadMore(zlibRead(d, k - Len(got)), k, got)

\* io.Copy(ioutil.Discard, d.z): reader.Read into a DiscardBuf-byte buffer
\* until an error; the result is the number of bytes read.
DiscardBuf == 8192

RECURSIVE zDiscard(_, _)
zDiscarded(x, n) ==
    IF x.err = "nil" THEN zDiscard(x.d, n + Len(x.p))
    ELSE [d |-> x.d, n |-> n + Len(x.p)]

zDiscard(d, n) == zDiscarded(zlibRead(d, DiscardBuf), n)

(***************************************************************************)
(* Decompressor.closeBlock, nextBlock, Read                                *)
(***************************************************************************)
\* len(d.buf)
BufLen == 12

\* the first game version with the 12-byte header
Version10032 == 10032

closeBlock(d) ==
    IF d.SizeBlock # 0 \/ d.lim.N # 0 THEN "ErrUnexpectedEOF"
    ELSE IF d.crcData # Fold16(d.crc) THEN "ErrInvalidChecksum"
    ELSE "nil"

\* lenHead with GameVersion <= 10032 for the short header
lenHeadUpTo(d) ==
    IF d.GameVersion > 0 /\ d.GameVersion <= Version10032 THEN BufLen - 4 ELSE BufLen

\* var lenHead = len(d.buf); if 0 < GameVersion < 10032 { lenHead -= 4 }
lenHead(d) ==
    IF d.GameVersion > 0 /\ d.GameVersion < Version10032 THEN BufLen - 4 ELSE BufLen

\* The header fields as nextBlock reads them from d.buf[:lenHead].
wideFields(d) == d.GameVersion = 0 \/ d.GameVersion >= Version10032

lenDeflateOf(d, buf) ==
    IF wideFields(d) THEN UInt32LE(SubSeq(buf, 1, 4)) ELSE UInt16LE(SubSeq(buf, 1, 2))

sizeBlockOf(d, buf) ==
    IF wideFields(d) THEN UInt32LE(SubSeq(buf, 5, 8)) ELSE UInt16LE(SubSeq(buf, 3, 4))

crcHeadOf(d, buf) ==
    IF wideFields(d) THEN UInt16LE(SubSeq(buf, 9, 10)) ELSE UInt16LE(SubSeq(buf, 5, 6))

crcDataOf(d, buf) ==
    IF wideFields(d) THEN UInt16LE(SubSeq(buf, 11, 12)) ELSE UInt16LE(SubSeq(buf, 7, 8))

\* d.buf[lenHead-4 .. lenHead-1] = 0, 0, 0, 0; crc32.ChecksumIEEE(d.buf[:lenHead])
headerSum(buf) == Fold16(ChecksumIEEE(Take(buf, Len(buf) - 4) \o Zeros(4)))

\* nextBlock after zlib.NewReader or Reset returned z: the zlib header is
\* added to SizeRead
nextBlockReset(z, lenDeflate) ==
    [d   |-> [z.d EXCEPT !.SizeRead = Add32(@, Sub32(lenDeflate, z.d.lim.N))],
     err |-> z.err]

\* nextBlock without the comparison of the header checksum
nextBlockSumUnchecked(d, buf) ==
    nextBlockReset(zlibReset([d EXCEPT !.lim.N = lenDeflateOf(d, buf),
                                       !.crc = CrcZero]),
                   lenDeflateOf(d, buf))

\* nextBlock once SizeBlock and crcData are set from the header in buf
nextBlockSum(d, buf) ==
    IF crcHeadOf(d, buf) # headerSum(buf)
    THEN [d |-> d, err |-> "ErrInvalidChecksum"]
    ELSE nextBlockReset(zlibReset([d EXCEPT !.lim.N = lenDeflateOf(d, buf),
                                            !.crc = CrcZero]),
                        lenDeflateOf(d, buf))

\* nextBlock after io.ReadFull(d.r, d.buf[:lenHead]) returned h
nextBlockHead(h) ==
    IF h.err # "nil"
    THEN [d |-> [h.d EXCEPT !.SizeRead = Add32(@, Len(h.p))], err |-> h.err]
    ELSE nextBlockSum([h.d EXCEPT !.SizeRead = Add32(@, Len(h.p)),
                                  !.SizeBlock = sizeBlockOf(h.d, h.p),
                                  !.crcData = crcDataOf(h.d, h.p)], h.p)

\* History of the header reads: what held when nextBlock reached
\* io.ReadFull(d.r, d.buf[:lenHead]), NumBlocks being the count before the
\* decrement.  It is not a field of the Decompressor.
headRead(d) ==
    [NumBlocks |-> d.NumBlocks, SizeBlock |-> d.SizeBlock, limN |-> d.lim.N,
     sumOK |-> (d.crcData = Fold16(d.crc))]

\* nextBlock without d.NumBlocks--
nextBlockUndecremented(d) ==
    IF d.NumBlocks = 0 THEN [d |-> d, err |-> "EOF"]
    ELSE IF closeBlock(d) # "nil" THEN [d |-> d, err |-> closeBlock(d)]
    ELSE nextBlockHead(SrcReadFull([d EXCEPT !.heads = Append(@, headRead(d))],
                                   lenHead(d)))

\* nextBlock without the call of closeBlock
nextBlockUnclosed(d) ==
    IF d.NumBlocks = 0 THEN [d |-> d, err |-> "EOF"]
    ELSE nextBlockHead(SrcReadFull([d EXCEPT !.NumBlocks = Sub32(@, 1),
                                             !.heads = Append(@, headRead(d))],
                                   lenHead(d)))

nextBlock(d) ==
    IF d.NumBlocks = 0 THEN [d |-> d, err |-> "EOF"]
    ELSE IF closeBlock(d) # "nil" THEN [d |-> d, err |-> closeBlock(d)]
    ELSE nextBlockHead(SrcReadFull([d EXCEPT !.NumBlocks = Sub32(@, 1),
                                             !.heads = Append(@, headRead(d))],
                                   lenHead(d)))

\* Read's loop, for n != l: b holds the n bytes delivered so far and l is
\* the clamped len(b).  A call on d.z == nil is a nil-pointer panic.
RECURSIVE readLoop(_, _, _)
\* case io.ErrUnexpectedEOF, and case nil falling through
readClose(d, b, l) ==
    IF closeBlock(d) # "nil" THEN [d |-> d, p |-> b, err |-> closeBlock(d)]
    ELSE readLoop(d, b, l)

\* case nil after the drain: if d.SizeBlock > 0 { continue }
readContinue(d, b, l) ==
    IF d.SizeBlock # 0 THEN readLoop(d, b, l) ELSE readClose(d, b, l)

\* nn, _ := io.Copy(ioutil.Discard, d.z); d.SizeBlock -= uint32(nn)
readDrained(c) == [c.d EXCEPT !.SizeBlock = Sub32(@, c.n)]

\* switch err
readSwitch(d, err, b, l) ==
    IF err = "nil"
    THEN readContinue(IF d.SizeTotal = 0 /\ d.SizeBlock # 0
                      THEN readDrained(zDiscard(d, 0)) ELSE d, b, l)
    ELSE IF err = "ErrUnexpectedEOF" THEN readClose(d, b, l)
    ELSE [d |-> d, p |-> b, err |-> err]

\* readData without d.SizeTotal -= uint32(nn)
readDataTotalKept(x, r, b, l) ==
    readSwitch([x.d EXCEPT !.SizeRead = Add32(@, Sub32(r, x.d.lim.N)),
                           !.SizeBlock = Sub32(@, Len(x.p))],
               x.err, b \o x.p, l)

\* after io.ReadFull(d.z, b[n:]) returned x, r being d.lim.N before it
readData(x, r, b, l) ==
    readSwitch([x.d EXCEPT !.SizeRead = Add32(@, Sub32(r, x.d.lim.N)),
                           !.SizeTotal = Sub32(@, Len(x.p)),
                           !.SizeBlock = Sub32(@, Len(x.p))],
               x.err, b \o x.p, l)

\* after the block was opened, if it had to be (o.err its error)
readBlock(o, b, l) ==
    IF o.err # "nil" THEN [d |-> o.d, p |-> b, err |-> o.err]
    ELSE IF o.d.z.nil THEN [d |-> o.d, p |-> b, err |-> "panic"]
    ELSE readData(zReadFull(o.d, l - Len(b), <<>>), o.d.lim.N, b, l)

readLoop(d, b, l) ==
    IF Len(b) = l THEN [d |-> d, p |-> b, err |-> "nil"]
    ELSE readBlock(IF d.SizeBlock = 0 THEN nextBlock([d EXCEPT !.iters = @ + 1])
                   ELSE [d |-> [d EXCEPT !.iters = @ + 1], err |-> "nil"], b, l)

\* Read with the test of SizeTotal placed after the opening of the block
ReadEndAfterOpen(d, cap) ==
    IF d.SizeTotal = 0
    THEN [d |-> IF d.SizeBlock = 0 THEN nextBlock([d EXCEPT !.iters = 0]).d
                ELSE [d EXCEPT !.iters = 0],
          p |-> <<>>, err |-> "EOF"]
    ELSE readLoop([d EXCEPT !.iters = 0], <<>>,
                  IF Above32(cap, d.SizeTotal) THEN d.SizeTotal ELSE cap)

\* Read(b) with len(b) = cap: the new Decompressor, the bytes put in b and
\* the error.
Read(d, cap) ==
    IF d.SizeTotal = 0 THEN [d |-> [d EXCEPT !.iters = 0], p |-> <<>>, err |-> "EOF"]
    ELSE readLoop([d EXCEPT !.iters = 0], <<>>,
                  IF Above32(cap, d.SizeTotal) THEN d.SizeTotal ELSE cap)

(***************************************************************************)
(* Decompressor.ForEach.  d.bufr is the bufio.Reader over d: its unread    *)
(* bytes and the error it keeps for after them.  RecordDecoder.Read is     *)
(* not part of these sources: here a record is one byte, decoded from      *)
(* d.bufr with ReadByte.  A fill is one d.Read into the BufSize-byte       *)
(* buffer (Read never returns 0 bytes and no error for a non-empty         *)
(* buffer).  The callback fails on its failAt-th call (0: never).  The     *)
(* result also carries what the Reads returned: their bytes and errors.    *)
(***************************************************************************)
BufSize == 8192

\* RecordDecoder.Read on buffered bytes: the record is the first byte
decodeRecord(buf) == Head(buf)

RECURSIVE forEach(_, _, _, _, _)
\* f(rec) was called, calls now holding rec as its last element
forEachCalled(d, calls, failAt, got, errs) ==
    IF Len(calls) = failAt
    THEN [d |-> d, calls |-> calls, err |-> "ErrCallback", got |-> got, errs |-> errs]
    ELSE forEach(d, calls, failAt, got, errs)

\* bufio.Reader.fill after d.Read returned x
forEachFilled(x, calls, failAt, got, errs) ==
    IF x.err = "panic"
    THEN [d |-> x.d, calls |-> calls, err |-> "panic",
          got |-> got \o x.p, errs |-> errs \cup {x.err}]
    ELSE forEach([x.d EXCEPT !.bufr.buf = x.p, !.bufr.err = x.err],
                 calls, failAt, got \o x.p, errs \cup {x.err})

forEach(d, calls, failAt, got, errs) ==
    IF d.bufr.buf # <<>>
    THEN forEachCalled([d EXCEPT !.bufr.buf = Tail(@)],
                       Append(calls, decodeRecord(d.bufr.buf)), failAt, got, errs)
    ELSE IF d.bufr.err # "nil"
    THEN [d     |-> [d EXCEPT !.bufr.err = "nil"],
          calls |-> calls,
          err   |-> IF d.bufr.err = "EOF" THEN "nil" ELSE d.bufr.err,
          got   |-> got,
          errs  |-> errs]
    ELSE forEachFilled(Read(d, BufSize), calls, failAt, got, errs)

\* ForEach(f): if d.bufr == nil { d.bufr = bufio.NewReaderSize(d, 8192) }
ForEach(d, failAt) == forEach([d EXCEPT !.bufr.nil = FALSE], <<>>, failAt, <<>>, {})

\* NewDecompressor(r, e, f, numBlocks, sizeTotal) over the bytes s, with
\* e.GameVersion = gv
NewDecompressor(s, gv, numBlocks, sizeTotal) ==
    [SizeRead |-> 0, SizeTotal |-> sizeTotal, SizeBlock |-> 0,
     NumBlocks |-> numBlocks, GameVersion |-> gv,
     r |-> [s |-> s, i |-> 0], z |-> zlibNil, lim |-> [N |-> 0],
     crc |-> CrcZero, crcData |-> 0,
     bufr |-> [nil |-> TRUE, buf |-> <<>>, err |-> "nil"],
     iters |-> 0, heads |-> <<>>]

(***************************************************************************)
(* The inputs: a stream of blocks written as the format asks.  Block i     *)
(* holds sizes[i] bytes; its payload is a zlib stream of stored blocks in  *)
(* one of four styles: "final" (one final stored block and the Adler-32    *)
(* trailer), "sync" (a stored block and the empty stored block of a sync   *)
(* flush, no trailer), "split" (one stored block per byte, the last one    *)
(* final, and the trailer), "flush" (a stored block, the empty block of a  *)
(* sync flush, an empty final block and the trailer).                      *)
(***************************************************************************)
MaxBlocks == 2

MaxData == 2

MaxCap == 3

MaxFail == 2

GameVersions == {0, Version10032 - 1}

Styles == {"final", "sync", "split", "flush"}

DataByte(i, j) == (MaxData + 2) * i + j

BlockData(i, n) == [j \in 1..n |-> DataByte(i, j)]

LE16(v) == <<(v % 256), v \div 256>>

LE32(v) == <<(v % 256), ((v \div 256) % 256), ((v \div 65536) % 256), v \div 16777216>>

Stored(final, p) ==
    <<IF final THEN 1 ELSE 0>> \o LE16(Len(p)) \o LE16(65535 - Len(p)) \o p

RECURSIVE StoredEach(_)
StoredEach(p) ==
    IF Len(p) <= 1 THEN Stored(TRUE, p)
    ELSE Stored(FALSE, <<Head(p)>>) \o StoredEach(Tail(p))

ZlibHeader == <<120, 1>>

Payload(style, p) ==
    ZlibHeader \o
    (CASE style = "final" -> Stored(TRUE, p) \o AdlerBytes(AdlerWrite(AdlerInit, p))
       [] style = "sync"  -> (IF p = <<>> THEN <<>> ELSE Stored(FALSE, p))
                             \o Stored(FALSE, <<>>)
       [] style = "split" -> StoredEach(p) \o AdlerBytes(AdlerWrite(AdlerInit, p))
       [] style = "flush" -> (IF p = <<>> THEN <<>> ELSE Stored(FALSE, p))
                             \o Stored(FALSE, <<>>) \o Stored(TRUE, <<>>)
                             \o AdlerBytes(AdlerWrite(AdlerInit, p)))

Wide(gv) == gv = 0 \/ gv >= Version10032

HeaderLen(gv) == IF Wide(gv) THEN 12 ELSE 8

\* The length fields of a header, for a payload of len bytes holding n bytes
Lens(gv, len, n) == IF Wide(gv) THEN LE32(len) \o LE32(n) ELSE LE16(len) \o LE16(n)

HeaderOf(lens, pl) ==
    lens \o LE16(Fold16(ChecksumIEEE(lens \o Zeros(4)))) \o LE16(Fold16(ChecksumIEEE(pl)))

BlockOf(gv, n, pl) == HeaderOf(Lens(gv, Len(pl), n), pl) \o pl

\* Block i of a stream: the header, with both checksums, and the payload.
Block(gv, style, i, n) == BlockOf(gv, n, Payload(style, BlockData(i, n)))

RECURSIVE Stream(_, _, _, _)
Stream(gv, style, sizes, i) ==
    IF i > Len(sizes) THEN <<>>
    ELSE Block(gv, style, i, sizes[i]) \o Stream(gv, style, sizes, i + 1)

RECURSIVE AllData(_, _)
AllData(sizes, i) ==
    IF i > Len(sizes) THEN <<>>
    ELSE BlockData(i, sizes[i]) \o AllData(sizes, i + 1)

RECURSIVE Sum(_, _)
Sum(sizes, i) == IF i > Len(sizes) THEN 0 ELSE sizes[i] + Sum(sizes, i + 1)

\* The damage done to a stream: none, the source cut to `at` bytes, or the
\* byte at offset `at` (from 0) changed by xor with `mask`.
Damage(s, dmg, at, mask) ==
    CASE dmg = "none"    -> s
      [] dmg = "trunc"   -> Take(s, at)
      [] dmg = "corrupt" -> [s EXCEPT ![at + 1] = Xor8(@, mask)]

\* The masks keep a corrupted deflate block header within block types 00
\* and 11.
Masks == {1, 6}

\* A stream whose block i holds sizes[i] bytes while its header, with both
\* checksums right, declares decl[i] bytes.
BlockAs(gv, style, i, n, declared) ==
    BlockOf(gv, declared, Payload(style, BlockData(i, n)))

RECURSIVE StreamAs(_, _, _, _, _)
StreamAs(gv, style, sizes, decl, i) ==
    IF i > Len(sizes) THEN <<>>
    ELSE BlockAs(gv, style, i, sizes[i], decl[i])
         \o StreamAs(gv, style, sizes, decl, i + 1)

\* The source of input x.  With x.dmg = "declare" the header of block x.at
\* declares x.mask bytes.
Source(x) ==
    IF x.dmg = "declare"
    THEN StreamAs(x.gv, x.style, x.sizes, [x.sizes EXCEPT ![x.at] = x.mask], 1)
    ELSE Damage(Stream(x.gv, x.style, x.sizes, 1), x.dmg, x.at, x.mask)

SizeLists == UNION {[1..n -> 0..MaxData] : n \in 0..MaxBlocks}

\* "split" differs from "final" only for a block of two or more bytes.
StyleOK(style, sizes) == style = "split" => \E i \in 1..Len(sizes) : sizes[i] >= 2

\* The intact inputs: every list of block sizes, and every declared total
\* up to one more than the blocks hold.
Bases ==
    {b \in [gv : GameVersions, style : Styles, sizes : SizeLists,
            total : 0..(MaxBlocks * MaxData + 1)] :
        StyleOK(b.style, b.sizes) /\ b.total <= Sum(b.sizes, 1) + 1}

\* The inputs that are damaged: a last block of MaxData bytes, alone or
\* after a block of one byte, of which the total asks all or all but one.
DamagedSizes == {<<MaxData>>, <<1, MaxData>>}

DamagedBases ==
    {b \in Bases : b.sizes \in DamagedSizes
                   /\ b.total \in {Sum(b.sizes, 1) - 1, Sum(b.sizes, 1)}}

With(b, dmg, at, mask) ==
    [gv |-> b.gv, style |-> b.style, sizes |-> b.sizes, total |-> b.total,
     dmg |-> dmg, at |-> at, mask |-> mask]

StreamLen(b) == Len(Stream(b.gv, b.style, b.sizes, 1))

(***************************************************************************)
(* The state: the Decompressor dec of one session over the input, the      *)
(* bytes out that its Reads have returned so far, the errors seen that     *)
(* they have returned, and the outcome ret of the last call.  A panic ends *)
(* the session.                                                            *)
(***************************************************************************)
VARIABLES dec, input, out, seen, ret

vars == <<dec, input, out, seen, ret>>

InitOn(x) ==
    /\ input = x
    /\ dec = NewDecompressor(Source(x), x.gv, Len(x.sizes), x.total)
    /\ out = <<>>
    /\ seen = {}
    /\ ret = [op |-> "New", arg |-> 0, n |-> 0, err |-> "nil", calls |-> <<>>]

Init == \E b \in Bases : InitOn(With(b, "none", 0, 0))

InitTruncated ==
    \E b \in DamagedBases : \E at \in 0..(StreamLen(b) - 1) :
        InitOn(With(b, "trunc", at, 0))

InitCorrupted ==
    \E b \in DamagedBases : \E at \in 0..(StreamLen(b) - 1) : \E m \in Masks :
        InitOn(With(b, "corrupt", at, m))

\* One header declares one byte more or one byte less than its block holds.
InitMisdeclared ==
    \E b \in Bases : \E at \in 1..Len(b.sizes) :
        \E n \in {b.sizes[at] - 1, b.sizes[at] + 1} \cap (0..(MaxData + 1)) :
            InitOn(With(b, "declare", at, n))

\* Intact inputs for the game versions on both sides of the two header
\* layouts.
LayoutVersions == {0, 1, Version10032 - 1, Version10032, Version10032 + 1}

InitLayout ==
    \E b \in Bases : \E gv \in LayoutVersions :
        /\ b.gv = 0 /\ b.style \in {"final", "sync"} /\ b.total = Sum(b.sizes, 1)
        /\ InitOn(With([b EXCEPT !.gv = gv], "none", 0, 0))

\* Intact inputs of blocks that hold one byte or none, the total asking up
\* to one byte more than they hold.
InitEmptyBlocks ==
    \E b \in Bases :
        /\ b.gv = 0 /\ b.style \in {"final", "sync"}
        /\ \A i \in 1..Len(b.sizes) : b.sizes[i] <= 1
        /\ InitOn(With(b, "none", 0, 0))

\* n, err := d.Read(b) with len(b) = cap, x being what Read returns
ReadDone(x, cap) ==
    /\ dec' = x.d
    /\ out' = out \o x.p
    /\ seen' = seen \cup {x.err}
    /\ ret' = [op |-> "Read", arg |-> cap, n |-> Len(x.p), err |-> x.err,
               calls |-> <<>>]
    /\ input' = input

DoRead(cap) == ret.err # "panic" /\ ReadDone(Read(dec, cap), cap)

\* err := d.ForEach(f), f failing on its failAt-th call (0: never), x being
\* what ForEach returns
ForEachDone(x, failAt) ==
    /\ dec' = x.d
    /\ out' = out \o x.got
    /\ seen' = seen \cup x.errs
    /\ ret' = [op |-> "ForEach", arg |-> failAt, n |-> Len(x.calls),
               err |-> x.err, calls |-> x.calls]
    /\ input' = input

DoForEach(failAt) == ret.err # "panic" /\ ForEachDone(ForEach(dec, failAt), failAt)

Next ==
    \/ \E cap \in 0..MaxCap : DoRead(cap)
    \/ \E failAt \in 0..MaxFail : DoForEach(failAt)

Spec == Init /\ [][Next]_vars

SpecTruncated == InitTruncated /\ [][Next]_vars

SpecCorrupted == InitCorrupted /\ [][Next]_vars

SpecMisdeclared == InitMisdeclared /\ [][Next]_vars

SpecLayout == InitLayout /\ [][Next]_vars

SpecEmptyBlocks == InitEmptyBlocks /\ [][Next]_vars

\* The model's deflate never meets a Huffman block.
StoredOnly == dec.z.ferr # "flate.Huffman" /\ "flate.Huffman" \notin seen


(***************************************************************************)
(* What the claims speak of.                                               *)
(***************************************************************************)
\* The decompressed bytes the blocks of the input hold, and the bytes owed:
\* the first `total` of them.
Data == AllData(input.sizes, 1)

Owed == Take(Data, Min(input.total, Len(Data)))

\* The input is as written and its total is within what its blocks hold.
WellFormed == input.dmg = "none" /\ input.total <= Sum(input.sizes, 1)

\* An error other than the clean end-of-stream signal
Fatal(e) == e \notin {"nil", "EOF"}

IsPrefix(p, q) == Len(p) <= Len(q) /\ p = Take(q, Len(p))

\* The length of block i of the input as written, header and payload, and
\* the offset at which it ends (block 0: the start)
BlockLen(i) ==
    HeaderLen(input.gv) + Len(Payload(input.style, BlockData(i, input.sizes[i])))

RECURSIVE BlockEnd(_)
BlockEnd(i) == IF i = 0 THEN 0 ELSE BlockEnd(i - 1) + BlockLen(i)

\* The block the damaged offset lies in, or 0
DamagedBlock ==
    IF \E i \in 1..Len(input.sizes) : BlockEnd(i - 1) <= input.at /\ input.at < BlockEnd(i)
    THEN CHOOSE i \in 1..Len(input.sizes) :
             BlockEnd(i - 1) <= input.at /\ input.at < BlockEnd(i)
    ELSE 0

\* The damaged offset within its block, from 0
DamagedAt == input.at - BlockEnd(DamagedBlock - 1)

\* C1: on a well-formed input no Read returns a fatal error, the bytes
\* returned so far are a prefix of the owed bytes whatever the capacities
\* asked, and once the end of the stream was signalled they are all of the
\* owed bytes.
C1_ChunkingTransparency ==
    WellFormed =>
        /\ \A e \in seen : ~Fatal(e)
        /\ IsPrefix(out, Owed)
        /\ ("EOF" \in seen => out = Owed)

\* C2: on every input, a Read returns the end-of-stream signal only in a
\* state where SizeTotal is 0.
C2_EndOnlyWhenDelivered ==
    (ret.op = "Read" /\ ret.err = "EOF") => dec.SizeTotal = 0

\* C3: when the total exceeds what the blocks hold, a Read for at least one
\* byte that finds no block left, no block open and bytes still owed
\* returns a fatal error, not the end-of-stream signal.
C3_EndOfBlocks ==
    [][(/\ input.total > Sum(input.sizes, 1)
        /\ dec.NumBlocks = 0 /\ dec.SizeBlock = 0 /\ dec.SizeTotal # 0
        /\ ret'.op = "Read" /\ ret'.arg > 0)
       => Fatal(ret'.err)]_vars

\* C4: when the source is cut inside a block, the end of the stream is
\* signalled to the caller only after a fatal error was.
C4_TruncationReported ==
    (/\ input.dmg = "trunc"
     /\ DamagedBlock # 0 /\ DamagedAt > 0
     /\ "EOF" \in seen)
    => \E e \in seen : Fatal(e)

\* The header field the damaged offset lies in, or "none"
HeaderField ==
    IF DamagedBlock = 0 \/ DamagedAt >= HeaderLen(input.gv) THEN "none"
    ELSE IF DamagedAt < (HeaderLen(input.gv) - 4) \div 2 THEN "lenDeflate"
    ELSE IF DamagedAt < HeaderLen(input.gv) - 4 THEN "sizeBlock"
    ELSE IF DamagedAt < HeaderLen(input.gv) - 2 THEN "crcHead"
    ELSE "crcData"

\* The decompressed bytes the blocks before block i hold
BytesBefore(i) == Sum(SubSeq(input.sizes, 1, i - 1), 1)

\* nextBlock has read the header of block i
Opened(i) == dec.NumBlocks <= Len(input.sizes) - i

\* C5 as stated: once the block with a corrupted header field (any of the
\* four) was opened, a Read has returned ErrInvalidChecksum and no byte of
\* that block was delivered.
C5_AnyHeaderField ==
    (input.dmg = "corrupt" /\ HeaderField # "none" /\ Opened(DamagedBlock))
    => /\ "ErrInvalidChecksum" \in seen
       /\ Len(out) <= BytesBefore(DamagedBlock)

\* C5 amended: once the block with one byte changed in its compressed
\* length, decompressed length or header checksum was opened, a Read has
\* returned ErrInvalidChecksum and no byte of that block was delivered.
C5_CheckedHeaderField ==
    (/\ input.dmg = "corrupt"
     /\ HeaderField \in {"lenDeflate", "sizeBlock", "crcHead"}
     /\ Opened(DamagedBlock))
    => /\ "ErrInvalidChecksum" \in seen
       /\ Len(out) <= BytesBefore(DamagedBlock)

\* The second block's header is corrupted in a checked field, the first
\* block was delivered and opening the second was refused.
C5_Witness ==
    /\ input.dmg = "corrupt"
    /\ HeaderField \in {"lenDeflate", "sizeBlock", "crcHead"}
    /\ DamagedBlock = 2 /\ Opened(2)
    /\ out = BlockData(1, input.sizes[1])
    /\ ret.op = "Read" /\ ret.err = "ErrInvalidChecksum"

\* C6: when a payload byte is corrupted, the end of the stream is reached
\* (all owed bytes delivered, end signalled) only after a Read returned a
\* fatal error.
C6_PayloadCorruptionReported ==
    (/\ input.dmg = "corrupt"
     /\ DamagedBlock # 0 /\ DamagedAt >= HeaderLen(input.gv)
     /\ "EOF" \in seen /\ dec.SizeTotal = 0)
    => \E e \in seen : Fatal(e)

\* C7: when the last block declares more bytes than are owed, the Read that
\* delivers the last owed byte returns success only if the block then
\* passes the close-block check.
C7_DrainThenClose ==
    (/\ input.total < Sum(input.sizes, 1)
     /\ ret.op = "Read" /\ ret.err = "nil" /\ ret.n > 0
     /\ dec.SizeTotal = 0)
    => closeBlock(dec) = "nil"

\* C8: when a well-formed stream was read to its clean end, SizeRead is the
\* sum over the blocks opened of the header length and the declared
\* compressed length.
C8_SizeReadAtEnd ==
    (/\ WellFormed
     /\ ret.op = "Read" /\ ret.err = "EOF" /\ dec.SizeTotal = 0
     /\ \A e \in seen : ~Fatal(e))
    => dec.SizeRead = BlockEnd(Len(input.sizes) - dec.NumBlocks)

\* C9: ForEach on a new Decompressor over a well-formed stream of K
\* one-byte records calls f on the K records in order and returns nil, or,
\* when f fails on its j-th call, returns that error after exactly j calls.
C9_ForEachCalls ==
    [][(WellFormed /\ ret.op = "New" /\ ret'.op = "ForEach")
       => IF ret'.arg = 0 \/ ret'.arg > Len(Owed)
          THEN ret'.err = "nil" /\ ret'.calls = Owed
          ELSE ret'.err = "ErrCallback" /\ ret'.calls = Take(Owed, ret'.arg)]_vars

\* C10: ForEach returns nil only when the whole declared total was
\* delivered.
C10_ForEachNilOnlyAtEnd ==
    (ret.op = "ForEach" /\ ret.err = "nil") => dec.SizeTotal = 0

\* C11: once a Read has returned a fatal error (any error but the clean end
\* of stream), every later Read returns no byte and a fatal error, takes no
\* further byte from the source and opens no further block.
C11_FailureIsTerminal ==
    [][((\E e \in seen : Fatal(e)) /\ ret'.op = "Read")
       => /\ ret'.n = 0
          /\ Fatal(ret'.err)
          /\ dec'.r.i = dec.r.i
          /\ dec'.NumBlocks = dec.NumBlocks]_vars

\* C12: once SizeTotal is 0, every Read, whatever its capacity, returns no
\* byte and io.EOF and leaves SizeRead, SizeTotal, SizeBlock, NumBlocks and
\* the position in the source as they were, also with NumBlocks above 0.
C12_EndIsTerminal ==
    [][(dec.SizeTotal = 0 /\ ret'.op = "Read")
       => /\ ret'.n = 0
          /\ ret'.err = "EOF"
          /\ out' = out
          /\ dec'.SizeRead = dec.SizeRead
          /\ dec'.SizeTotal = 0
          /\ dec'.SizeBlock = dec.SizeBlock
          /\ dec'.NumBlocks = dec.NumBlocks
          /\ dec'.r.i = dec.r.i]_vars

\* A Read with a buffer returned io.EOF with all bytes delivered and a
\* block still unopened.
C12_Witness ==
    /\ ret.op = "Read" /\ ret.arg > 0 /\ ret.err = "EOF"
    /\ dec.SizeTotal = 0 /\ dec.NumBlocks > 0
    /\ out # <<>>

\* C13: the bytes that the Reads have returned so far number the declared
\* total less SizeTotal, after successful and failed Reads alike; a Read
\* returns at most min(capacity, SizeTotal before the call) bytes; the bytes
\* it had put in the buffer before an error are returned with the error;
\* bytes drained from a block are not counted.
C13_DeliveredAccounting ==
    [][/\ Len(out') = input.total - dec'.SizeTotal
       /\ Len(out') - Len(out) = dec.SizeTotal - dec'.SizeTotal
       /\ ret'.op = "Read"
          => /\ ret'.n <= Min(ret'.arg, dec.SizeTotal)
             /\ ret'.n = dec.SizeTotal - dec'.SizeTotal]_vars

\* A Read returned a byte together with a fatal error, after draining the
\* rest of a block that holds more than the total asks.
C13_Witness ==
    /\ ret.op = "Read" /\ ret.n > 0 /\ Fatal(ret.err)
    /\ dec.SizeTotal = 0 /\ dec.SizeBlock = 0
    /\ input.total < Sum(input.sizes, 1)

\* C14: in every state, also after nextBlock has failed, SizeBlock above 0
\* means that a block is open: the zlib reader was made for it and the
\* header last read, from which SizeBlock comes, passed the comparison of
\* its checksum.  A failed nextBlock leaves SizeBlock at 0.
C14_OwedOnlyWhenOpen ==
    dec.SizeBlock # 0
    => /\ ~dec.z.nil
       /\ ~(/\ input.dmg = "corrupt"
            /\ HeaderField \in {"lenDeflate", "sizeBlock", "crcHead"}
            /\ dec.NumBlocks = Len(input.sizes) - DamagedBlock)

\* C15: every header was read in a state with SizeBlock 0, NumBlocks above
\* 0 and the block before it closed (d.lim.N 0, the payload checksum equal
\* to the accumulated one); every header read took one from NumBlocks, so
\* NumBlocks is never below 0 and the header reads never number more than
\* the declared blocks.
C15_OpeningOrder ==
    /\ dec.NumBlocks >= 0
    /\ Len(dec.heads) = Len(input.sizes) - dec.NumBlocks
    /\ \A k \in 1..Len(dec.heads) :
           /\ dec.heads[k].SizeBlock = 0
           /\ dec.heads[k].NumBlocks = Len(input.sizes) - k + 1
           /\ dec.heads[k].limN = 0
           /\ dec.heads[k].sumOK

\* Both headers were read, bytes of the first block having been delivered.
C15_Witness ==
    /\ Len(dec.heads) = 2 /\ dec.NumBlocks = 0
    /\ Len(out) >= input.sizes[1] /\ input.sizes[1] > 0

\* C16: the zlib reader never takes more bytes of the source than the
\* compressed length of the open block (d.lim.N is never below 0 and the
\* position never passes the end of the block), and a Read on a block whose
\* zlib stream has ended (the reader is at io.EOF) while the block still
\* owes bytes returns io.ErrUnexpectedEOF.
C16_CompressedBudget ==
    [][/\ dec'.lim.N >= 0
       /\ dec'.r.i <= BlockEnd(Len(input.sizes) - dec'.NumBlocks)
       /\ (/\ ret'.op = "Read" /\ ret'.arg > 0
           /\ dec.SizeTotal # 0 /\ dec.SizeBlock # 0
           /\ ~dec.z.nil /\ dec.z.err = "EOF")
          => ret'.err = "ErrUnexpectedEOF"]_vars

\* C17: SizeBlock never wraps below 0 (the bytes taken from a block,
\* delivered and drained, never number more than its header declares),
\* also when the block holds more bytes than declared.
C17_BlockBudget == dec.SizeBlock >= 0

\* The block whose header was read last, the offset of its payload, and
\* whether nextBlock got past the comparison of its header checksum
CurBlock == Len(input.sizes) - dec.NumBlocks

PayloadStart == BlockEnd(CurBlock - 1) + HeaderLen(input.gv)

\* The bytes of that header in the source
LastHeader == SubSeq(dec.r.s, PayloadStart - HeaderLen(input.gv) + 1, PayloadStart)

HeaderPassed ==
    /\ CurBlock >= 1
    /\ dec.r.i >= PayloadStart
    /\ ~(/\ input.dmg = "corrupt"
         /\ HeaderField \in {"lenDeflate", "sizeBlock", "crcHead"}
         /\ DamagedBlock = CurBlock)

\* C18: d.crc and d.lim.N are reset by nextBlock only, and not while a
\* block is open: once a header has passed, d.crc is the checksum of exactly
\* the payload bytes taken from the source since then, d.lim.N is the
\* declared compressed length less their number, and d.crcData is the
\* payload checksum that this header declares.  A step that opens no block
\* (it reads no header, or the one header it reads does not pass) leaves
\* d.crcData and the start value of the budget as they were.
C18_ResetOnlyOnOpen ==
    [][/\ HeaderPassed'
          => /\ dec'.crc = CrcWriteAll(CrcZero,
                                       SubSeq(dec'.r.s, PayloadStart' + 1, dec'.r.i))
             /\ dec'.lim.N + (dec'.r.i - PayloadStart')
                    = lenDeflateOf(dec', LastHeader')
             /\ dec'.crcData = crcDataOf(dec', LastHeader')
       /\ dec'.NumBlocks = dec.NumBlocks
          => /\ dec'.crcData = dec.crcData
             /\ dec'.lim.N + dec'.r.i = dec.lim.N + dec.r.i
       /\ (dec'.NumBlocks = dec.NumBlocks - 1 /\ ~HeaderPassed')
          => /\ dec'.crcData = dec.crcData
             /\ dec'.lim.N = dec.lim.N
             /\ dec'.crc = dec.crc]_vars

\* The bytes nextBlock takes as the header of the block whose header was
\* read last
TakenHeader ==
    SubSeq(dec.r.s, BlockEnd(CurBlock - 1) + 1, BlockEnd(CurBlock - 1) + lenHead(dec))

\* C19: for every game version the header is 8 bytes with 16-bit length
\* fields exactly when 0 < GameVersion < 10032, and 12 bytes with 32-bit
\* length fields exactly when GameVersion is 0 or at least 10032; the two
\* choices agree; the two checksums are the last 4 bytes of the header;
\* and opening a block takes that many bytes from the source.
C19_HeaderLayout ==
    /\ lenHead(dec) = (IF 0 < input.gv /\ input.gv < 10032 THEN 8 ELSE 12)
    /\ wideFields(dec) = (input.gv = 0 \/ input.gv >= 10032)
    /\ wideFields(dec) = (lenHead(dec) = 12)
    /\ CurBlock >= 1
       => /\ lenDeflateOf(dec, TakenHeader)
               = (IF lenHead(dec) = 8 THEN UInt16LE(SubSeq(TakenHeader, 1, 2))
                  ELSE UInt32LE(SubSeq(TakenHeader, 1, 4)))
          /\ sizeBlockOf(dec, TakenHeader)
               = (IF lenHead(dec) = 8 THEN UInt16LE(SubSeq(TakenHeader, 3, 4))
                  ELSE UInt32LE(SubSeq(TakenHeader, 5, 8)))
          /\ crcHeadOf(dec, TakenHeader)
               = UInt16LE(SubSeq(TakenHeader, lenHead(dec) - 3, lenHead(dec) - 2))
          /\ crcDataOf(dec, TakenHeader)
               = UInt16LE(SubSeq(TakenHeader, lenHead(dec) - 1, lenHead(dec)))
          /\ dec.r.i - (lenDeflateOf(dec, TakenHeader) - dec.lim.N)
               = BlockEnd(CurBlock - 1) + lenHead(dec)
          /\ dec.crcData = crcDataOf(dec, TakenHeader)

\* At the first version with the long header, the second block was opened
\* and bytes of both blocks were delivered.
C19_Witness ==
    /\ input.gv = Version10032 /\ CurBlock = 2
    /\ dec.r.i >= BlockEnd(1) + 12
    /\ Len(out) > input.sizes[1] /\ input.sizes[1] > 0

\* C20: a Read ends after at most capacity + NumBlocks iterations of its
\* loop (NumBlocks as before the call), each iteration delivering a byte,
\* reading a header (which takes one from NumBlocks) or returning; so also
\* over blocks that declare 0 bytes.
C20_LoopBound ==
    [][ret'.op = "Read"
       => /\ dec'.iters <= ret'.arg + dec.NumBlocks
          /\ dec'.iters <= ret'.n + (dec.NumBlocks - dec'.NumBlocks) + 1]_vars

\* A Read of capacity 1 went through an empty first block and delivered
\* the byte of the second, in two iterations.
C20_Witness ==
    /\ Len(input.sizes) = 2 /\ input.sizes[1] = 0
    /\ ret.op = "Read" /\ ret.arg = 1 /\ ret.n = 1 /\ ret.err = "nil"
    /\ dec.iters = 2 /\ dec.NumBlocks = 0 /\ Len(out) = 1
=============================================================================
